---- MODULE Spec2Model ----
(***************************************************************************)
(* Lunch Money Balances (Home Assistant custom integration).               *)
(*                                                                         *)
(* The model follows custom_components/ha_lunchmoney_balances:             *)
(*   __init__.py  async_setup_entry / async_update_data (the fetch)        *)
(*   sensor.py    async_setup_entry, _async_coordinator_update_listener    *)
(*                (the reconciliation of the tracked sensors) and the      *)
(*                three sensor classes (the aggregation).                  *)
(*                                                                         *)
(* Amounts are exact decimals counted in units of 1e-7, so 0.0000001 is 1  *)
(* and ZERO_BALANCE_EPSILON (1e-6) is 10.  Python's None is the empty      *)
(* sequence for numbers (a present number v is <<v>>) and the string       *)
(* "None" for strings.                                                     *)
(***************************************************************************)
EXTENDS Integers, Sequences, FiniteSets, TLC

\* ------------------------------------------------------------------ bounds

\* The ids the API gives manual assets and Plaid accounts.  Id 1 is used by
\* both kinds.
ManualIds == {1}

PlaidIds == {1}

\* ------------------------------------------------------- program constants

\* sensor.py: ZERO_BALANCE_EPSILON = 1e-6, in units of 1e-7.
ZERO_BALANCE_EPSILON == 10

DEFAULT_INVERTED_ASSET_TYPES == {"credit", "loan"}

NET_WORTH_SENSOR_ID_SUFFIX == "net_worth"

\* The entry_id of the config entry.
entry_id == "entry1"

\* --------------------------------------------------------- python values

None == "None"

NoNumber == <<>>

Some(v) == <<v>>

IsNone(opt) == opt = <<>>

Val(opt) == opt[1]

Abs(n) == IF n < 0 THEN -n ELSE n

\* str.upper() on the strings the model uses.
Upper(s) ==
    CASE s = "usd" -> "USD"
      [] s = "eur" -> "EUR"
      [] s = "Usd" -> "USD"
      [] OTHER -> s

\* str.lower() on the strings the model uses.
Lower(s) ==
    CASE s = "USD" -> "usd"
      [] s = "EUR" -> "eur"
      [] s = "Usd" -> "usd"
      [] s = "Credit" -> "credit"
      [] s = "Cash" -> "cash"
      [] s = "Credit Card" -> "credit card"
      [] OTHER -> s

\* Truthiness of an optional string: None and "" are falsy.
Truthy(s) == s /= None /\ s /= ""

RECURSIVE SumOver(_, _)
\* The sum of f[x] over x in S (f a function on a superset of S).
SumOver(S, f) ==
    IF S = {} THEN 0
    ELSE LET x == CHOOSE y \in S : TRUE
         IN  f[x] + SumOver(S \ {x}, f)

\* ------------------------------------------------------------ raw records

\* A raw balance field of a manual asset: None, a string Decimal() parses
\* (tag "num", value v) or a string it rejects (tag "bad").
RawNone == [tag |-> "None", v |-> 0]

RawNum(n) == [tag |-> "num", v |-> n]

RawBad == [tag |-> "bad", v |-> 0]

\* A parse that reads a string Decimal() rejects as 0.
ParseBalanceLenient(raw) == IF raw.tag = "None" THEN NoNumber ELSE Some(raw.v)

\* float(Decimal(str(raw))) with InvalidOperation caught: the parsed balance,
\* None when the field is None or does not parse.
ParseBalance(raw) == IF raw.tag = "num" THEN Some(raw.v) ELSE NoNumber


\* --------------------------------------------------------------- dicts

\* A Python dict: its keys in insertion order and the value under each key.
EmptyDict == [keys |-> <<>>, val |-> <<>>]

\* {o.id: o for o in objs}: a key keeps the position of its first occurrence
\* and the value of its last one.
DictById(objs) ==
    LET n == Len(objs)
        idxs == [i \in 1..n |-> i]
        firsts == SelectSeq(idxs,
                      LAMBDA i : \A j \in 1..(i - 1) : objs[j].id /= objs[i].id)
        lastOf(k) == CHOOSE i \in 1..n :
                        /\ objs[i].id = k
                        /\ \A j \in (i + 1)..n : objs[j].id /= k
    IN  [keys |-> [m \in 1..Len(firsts) |-> objs[firsts[m]].id],
         val  |-> [k \in {objs[i].id : i \in 1..n} |-> objs[lastOf(k)]]]

DictKeys(dict) == DOMAIN dict.val

\* ------------------------------------------------------ the fetch (API)

\* The user object of get_user(), or a falsy answer.
NoUser == [present |-> FALSE, currency |-> None]

UserObject(c) == [present |-> TRUE, currency |-> c]

\* coordinator.data before the first successful refresh (None).  In every
\* value of the data, has_lists says whether the dict has the key
\* manual_assets or the key plaid_accounts; a missing key reads as the
\* empty dict.
NoData ==
    [is_none |-> TRUE, has_lists |-> FALSE, manual_assets |-> EmptyDict,
     plaid_accounts |-> EmptyDict, user |-> NoUser]

\* A dict that has neither the key manual_assets nor the key
\* plaid_accounts, with or without a user.
DataWithoutLists(user_object) ==
    [is_none |-> FALSE, has_lists |-> FALSE, manual_assets |-> EmptyDict,
     plaid_accounts |-> EmptyDict, user |-> user_object]

\* processed_data with a dict left empty when a record of its list lacks
\* an id.
ProcessedDataAllOrNothing(manual_assets_list, plaid_accounts_list, user_object) ==
    LET complete(list) == \A i \in DOMAIN list : list[i].has_id
    IN  [is_none |-> FALSE,
         has_lists |-> TRUE,
         manual_assets |-> IF manual_assets_list = <<>> \/ ~complete(manual_assets_list)
                           THEN EmptyDict
                           ELSE DictById(manual_assets_list),
         plaid_accounts |-> IF plaid_accounts_list = <<>> \/ ~complete(plaid_accounts_list)
                            THEN EmptyDict
                            ELSE DictById(plaid_accounts_list),
         user |-> IF user_object.present THEN user_object ELSE NoUser]

\* processed_data as async_update_data builds it from the three answers:
\* the objects that have an id (and, for Plaid, are PlaidAccountObjects),
\* keyed by id.
ProcessedData(manual_assets_list, plaid_accounts_list, user_object) ==
    LET valid_manual_assets ==
            SelectSeq(manual_assets_list, LAMBDA asset : asset.has_id)
        valid_plaid_accounts ==
            SelectSeq(plaid_accounts_list,
                      LAMBDA account : account.is_plaid_object /\ account.has_id)
    IN  [is_none |-> FALSE,
         has_lists |-> TRUE,
         manual_assets |-> IF valid_manual_assets = <<>> THEN EmptyDict
                           ELSE DictById(valid_manual_assets),
         plaid_accounts |-> IF valid_plaid_accounts = <<>> THEN EmptyDict
                            ELSE DictById(valid_plaid_accounts),
         user |-> IF user_object.present THEN user_object ELSE NoUser]

\* The three API calls async_update_data makes.
ApiCalls == {"get_assets", "get_plaid_accounts", "get_user"}

\* The partial processed_data a fetch would leave behind if the answers
\* received before the failing call were published anyway.
PartialData(manual_assets_list, plaid_accounts_list, user_object, failing) ==
    ProcessedData(
        IF failing = "get_assets" THEN <<>> ELSE manual_assets_list,
        IF failing \in {"get_assets", "get_plaid_accounts"} THEN <<>>
        ELSE plaid_accounts_list,
        NoUser)

\* async_update_data: `failing` names the API call that raises ("none" when
\* all three answer).  Any exception becomes UpdateFailed and nothing is
\* returned; otherwise processed_data is returned.
AsyncUpdateDataPartial(manual_assets_list, plaid_accounts_list, user_object, failing) ==
    IF failing = "get_assets"
    THEN [raised |-> "UpdateFailed", data |-> NoData]
    ELSE [raised |-> "none",
          data |-> IF failing = "none"
                   THEN ProcessedData(manual_assets_list, plaid_accounts_list,
                                      user_object)
                   ELSE PartialData(manual_assets_list, plaid_accounts_list,
                                    user_object, failing)]

AsyncUpdateData(manual_assets_list, plaid_accounts_list, user_object, failing) ==
    IF failing /= "none"
    THEN [raised |-> "UpdateFailed", data |-> NoData]
    ELSE [raised |-> "none",
          data |-> ProcessedData(manual_assets_list, plaid_accounts_list,
                                 user_object)]


\* ------------------------------------------------------ sensor objects

\* The inverted types as a match by substring would see them.
inverted_types_by_substring == {"credit", "loan", "credit card"}

\* config_entry.options.get(CONF_INVERTED_ASSET_TYPES, DEFAULT_...).
inverted_types_config == DEFAULT_INVERTED_ASSET_TYPES

\* A unique id without the source kind in it.
BalanceUniqueIdNoKind(is_plaid, item_id) ==
    <<entry_id, "item", item_id, "balance">>

\* The unique id of a balance sensor, as the listener and the sensor build it:
\* f"{entry_id}_{prefix}_{item_id}_balance".
BalanceUniqueId(is_plaid, item_id) ==
    <<entry_id, IF is_plaid THEN "plaid" ELSE "manual", item_id, "balance">>

\* f"{entry_id}_{NET_WORTH_SENSOR_ID_SUFFIX}_{currency_code.lower()}".
CurrencyUniqueId(currency_code) ==
    <<entry_id, NET_WORTH_SENSOR_ID_SUFFIX, Lower(currency_code)>>

\* LunchMoneyBalanceSensor._get_item_data: the record of the sensor's own
\* kind under its id, or None.
GetItemData(d, is_plaid, item_id) ==
    LET dict == IF is_plaid THEN d.plaid_accounts ELSE d.manual_assets
    IN  IF ~d.is_none /\ item_id \in DictKeys(dict)
        THEN <<dict.val[item_id]>>
        ELSE <<>>

\* The balance of an item as the balance sensor reads it: a Plaid balance is
\* already a number, a manual one goes through _parse_balance.
ItemBalance(is_plaid, item) ==
    IF is_plaid THEN item.balance ELSE ParseBalance(item.balance)

\* The lower-cased category the inversion is decided on: `type` for Plaid,
\* `type_name` for manual assets.
ItemType(is_plaid, item) ==
    Lower(IF is_plaid THEN item.type ELSE item.type_name)

\* LunchMoneyBalanceSensor._update_internal_state: value and unit.
BalanceState(d, is_plaid, item_id) ==
    LET found == GetItemData(d, is_plaid, item_id)
    IN  IF found /= <<>>
        THEN LET item == found[1]
                 raw_balance_val == ItemBalance(is_plaid, item)
             IN  [native_value |->
                      IF ~IsNone(raw_balance_val)
                         /\ ItemType(is_plaid, item) \in inverted_types_config
                      THEN Some(-Val(raw_balance_val))
                      ELSE raw_balance_val,
                  unit |-> IF Truthy(item.currency) THEN Upper(item.currency)
                           ELSE None]
        ELSE [native_value |-> NoNumber, unit |-> None]

\* LunchMoneyBalanceSensor.extra_state_attributes, read on data d: None when
\* the item is missing, else the attributes (the one the model keeps is
\* balance_inverted).
ExtraStateAttributes(d, is_plaid, item_id) ==
    LET found == GetItemData(d, is_plaid, item_id)
    IN  IF found = <<>> THEN [is_none |-> TRUE, balance_inverted |-> FALSE]
        ELSE [is_none |-> FALSE,
              balance_inverted |->
                  ItemType(is_plaid, found[1]) \in inverted_types_config]

\* LunchMoneyBalanceSensor.__init__: a new object, not attached to the host.
NewBalanceSensor(d, is_plaid, item_id) ==
    [is_plaid |-> is_plaid, item_id |-> item_id, hass |-> FALSE,
     state |-> BalanceState(d, is_plaid, item_id)]

\* The manual term that never negates.
ManualNetWorthTermUnsigned(asset) ==
    IF IsNone(asset.to_base) THEN 0 ELSE Val(asset.to_base)

\* One manual asset's term in the net worth: its to_base, negated when the
\* type is inverted; nothing when to_base is None.
ManualNetWorthTerm(asset) ==
    IF IsNone(asset.to_base) THEN 0
    ELSE IF Lower(asset.type_name) \in inverted_types_config
         THEN -Val(asset.to_base)
         ELSE Val(asset.to_base)

\* The Plaid term without the comparison of currencies.
PlaidNetWorthTermAnyCurrency(account, user_primary_currency) ==
    IF IsNone(account.balance) \/ account.currency = None THEN 0
    ELSE IF Lower(account.type) \in inverted_types_config
         THEN -Val(account.balance)
         ELSE Val(account.balance)

\* One Plaid account's term in the net worth: its balance when balance and
\* currency are present and the currency is the user's, compared lower-cased.
PlaidNetWorthTerm(account, user_primary_currency) ==
    IF IsNone(account.balance) \/ account.currency = None THEN 0
    ELSE IF Truthy(user_primary_currency)
            /\ Lower(account.currency) = Lower(user_primary_currency)
         THEN IF Lower(account.type) \in inverted_types_config
              THEN -Val(account.balance)
              ELSE Val(account.balance)
         ELSE 0

\* The net worth reported in USD when the user's currency is not known.
NetWorthStateDefaultUnit(d) ==
    LET user_primary_currency == d.user.currency
        manual == d.manual_assets.val
        plaid == d.plaid_accounts.val
    IN  [native_value |->
            Some(SumOver(DOMAIN manual,
                         [k \in DOMAIN manual |-> ManualNetWorthTerm(manual[k])])
               + SumOver(DOMAIN plaid,
                         [k \in DOMAIN plaid |->
                            PlaidNetWorthTerm(plaid[k], user_primary_currency)])),
         unit |-> IF Truthy(user_primary_currency)
                  THEN Upper(user_primary_currency) ELSE "USD"]

\* LunchMoneyNetWorthSensor._update_internal_state.
NetWorthState(d) ==
    LET user_primary_currency == d.user.currency
        manual == d.manual_assets.val
        plaid == d.plaid_accounts.val
    IN  [native_value |->
            Some(SumOver(DOMAIN manual,
                         [k \in DOMAIN manual |-> ManualNetWorthTerm(manual[k])])
               + SumOver(DOMAIN plaid,
                         [k \in DOMAIN plaid |->
                            PlaidNetWorthTerm(plaid[k], user_primary_currency)])),
         unit |-> IF Truthy(user_primary_currency)
                  THEN Upper(user_primary_currency) ELSE None]

\* The manual term comparing the currency as it is written.
ManualCurrencyTermCaseSensitive(asset, currency_code) ==
    IF Truthy(asset.currency) /\ asset.currency = currency_code
       /\ ~IsNone(ParseBalance(asset.balance))
    THEN IF Lower(asset.type_name) \in inverted_types_config
         THEN -Val(ParseBalance(asset.balance))
         ELSE Val(ParseBalance(asset.balance))
    ELSE 0

\* One manual asset's term in the total of currency_code (upper case).
ManualCurrencyTerm(asset, currency_code) ==
    IF Truthy(asset.currency) /\ Upper(asset.currency) = currency_code
       /\ ~IsNone(ParseBalance(asset.balance))
    THEN IF Lower(asset.type_name) \in inverted_types_config
         THEN -Val(ParseBalance(asset.balance))
         ELSE Val(ParseBalance(asset.balance))
    ELSE 0

\* One Plaid account's term in the total of currency_code (upper case).
PlaidCurrencyTerm(account, currency_code) ==
    IF Truthy(account.currency) /\ Upper(account.currency) = currency_code
       /\ ~IsNone(account.balance)
    THEN IF Lower(account.type) \in inverted_types_config
         THEN -Val(account.balance)
         ELSE Val(account.balance)
    ELSE 0

\* LunchMoneyNetWorthCurrencySensor._update_internal_state for the sensor of
\* currency_code.
CurrencyNetWorthState(d, currency_code) ==
    LET manual == d.manual_assets.val
        plaid == d.plaid_accounts.val
    IN  [native_value |->
            Some(SumOver(DOMAIN manual,
                         [k \in DOMAIN manual |->
                            ManualCurrencyTerm(manual[k], Upper(currency_code))])
               + SumOver(DOMAIN plaid,
                         [k \in DOMAIN plaid |->
                            PlaidCurrencyTerm(plaid[k], Upper(currency_code))])),
         unit |-> Upper(currency_code)]

\* LunchMoneyNetWorthCurrencySensor.__init__.
NewCurrencySensor(d, currency_code) ==
    [currency_code |-> Upper(currency_code), hass |-> FALSE,
     state |-> CurrencyNetWorthState(d, currency_code)]


\* ------------------------------------- _async_coordinator_update_listener

\* is_zero_balance without abs(): a negative balance counts as zero.
IsZeroBalanceSigned(parsed_balance) ==
    IsNone(parsed_balance) \/ Val(parsed_balance) < ZERO_BALANCE_EPSILON

\* is_zero_balance: the balance is None or below the epsilon in magnitude.
IsZeroBalance(parsed_balance) ==
    IsNone(parsed_balance) \/ Abs(Val(parsed_balance)) < ZERO_BALANCE_EPSILON

\* The manual-asset loop collecting the currencies of the assets with a
\* non-zero balance only.
ManualLoopNonZeroCurrencies(d, active) ==
    LET dict == d.manual_assets
        ids == DictKeys(dict)
        nonzero == {a \in ids : ~IsZeroBalance(ParseBalance(dict.val[a].balance))}
    IN  [desired |-> {BalanceUniqueId(FALSE, asset_id) : asset_id \in ids},
         create |-> {asset_id \in nonzero :
                        BalanceUniqueId(FALSE, asset_id) \notin DOMAIN active},
         currencies |-> {Upper(dict.val[asset_id].currency) :
                            asset_id \in {a \in nonzero : Truthy(dict.val[a].currency)}}]

\* The manual-asset loop.  Every asset's unique id is desired; a sensor is
\* created for an asset with a non-zero balance that has none yet; every
\* truthy currency is collected, upper-cased.
ManualLoop(d, active) ==
    LET dict == d.manual_assets
        ids == DictKeys(dict)
        create == {asset_id \in ids :
                      /\ ~IsZeroBalance(ParseBalance(dict.val[asset_id].balance))
                      /\ BalanceUniqueId(FALSE, asset_id) \notin DOMAIN active}
    IN  [desired |-> {BalanceUniqueId(FALSE, asset_id) : asset_id \in ids},
         create |-> create,
         currencies |-> {Upper(dict.val[asset_id].currency) :
                            asset_id \in {a \in ids : Truthy(dict.val[a].currency)}}]

\* The Plaid loop, in the dict's order.  It evaluates `unique_id in
\* active_sensors` for the first account whose balance is zero or None, and
\* active_sensors is not defined: NameError.  `stop` is the position of that
\* account (Len + 1 when there is none); the accounts before it are
\* processed like manual assets.
PlaidLoop(d, active) ==
    LET dict == d.plaid_accounts
        order == dict.keys
        zero(i) == IsZeroBalance(dict.val[order[i]].balance)
        stop == IF \E i \in 1..Len(order) : zero(i)
                THEN CHOOSE i \in 1..Len(order) :
                        zero(i) /\ \A j \in 1..(i - 1) : ~zero(j)
                ELSE Len(order) + 1
        done == {order[i] : i \in 1..(stop - 1)}
    IN  [raised |-> stop <= Len(order),
         desired |-> {BalanceUniqueId(TRUE, order[i]) :
                         i \in 1..(IF stop <= Len(order) THEN stop ELSE Len(order))},
         create |-> {account_id \in done :
                        BalanceUniqueId(TRUE, account_id) \notin DOMAIN active},
         currencies |-> {Upper(dict.val[account_id].currency) :
                            account_id \in {a \in done : Truthy(dict.val[a].currency)}}]

\* The two loops without `active_balance_sensors[unique_id] = new_sensor`.
WithCreatedForgotten(d, active, manual_create, plaid_create, attached) == active

\* The tracking dict after the two loops inserted the sensors they created;
\* `attached` tells whether add_entities_callback was reached for them.
WithCreated(d, active, manual_create, plaid_create, attached) ==
    LET newIds == {BalanceUniqueId(FALSE, i) : i \in manual_create}
                  \cup {BalanceUniqueId(TRUE, i) : i \in plaid_create}
    IN  [uid \in DOMAIN active \cup newIds |->
            IF uid \in DOMAIN active THEN active[uid]
            ELSE [NewBalanceSensor(d, uid[2] = "plaid", uid[3])
                  EXCEPT !.hass = attached]]

\* A deletion that deletes nothing.
WithoutNothing(f, gone) == f

\* A mapping without the keys in `gone`.
Without(f, gone) == [k \in DOMAIN f \ gone |-> f[k]]

\* The listener does nothing when the data is None or has neither the key
\* manual_assets nor the key plaid_accounts (the processed data always has
\* both).
ListenerReturnsEarlyNever(d) == FALSE

ListenerReturnsEarly(d) == d.is_none \/ ~d.has_lists

\* sensor_instance.async_remove(force_remove=True) for the attached
\* entities `uids`: the call builds a coroutine, which the listener (a
\* synchronous callback) neither awaits nor schedules, so its body never
\* runs.  The value is the set of entities that leave the host.
AsyncRemove(uids) == {}

\* The listener as a whole, from the data and the two tracking dicts to the
\* dicts it leaves behind and what it did on the way:
\*   outcome   "returned" (no data), "NameError" (raised in the Plaid loop)
\*             or "completed"
\*   created   the unique ids of the balance sensors it constructed
\*   added     the unique ids it passed to add_entities_callback
\*   removed   the unique ids it deleted from active_balance_sensors
\*   written   the unique ids it called async_write_ha_state on
\*   host_removed  the unique ids of the entities that left the host
Listener(d, active_balance, active_currency) ==
    LET m == ManualLoop(d, active_balance)
        p == PlaidLoop(d, active_balance)
        created == {BalanceUniqueId(FALSE, i) : i \in m.create}
                   \cup {BalanceUniqueId(TRUE, i) : i \in p.create}
        desired == m.desired \cup p.desired
        inserted == WithCreated(d, active_balance, m.create, p.create, ~p.raised)
        removed == {uid \in DOMAIN inserted : uid \notin desired}
        all_currencies == m.currencies \cup p.currencies
        desired_currency == {CurrencyUniqueId(c) : c \in all_currencies}
        new_currency == {c \in all_currencies :
                            CurrencyUniqueId(c) \notin DOMAIN active_currency}
        currency_inserted ==
            [uid \in DOMAIN active_currency
                     \cup {CurrencyUniqueId(c) : c \in new_currency} |->
                IF uid \in DOMAIN active_currency THEN active_currency[uid]
                ELSE [NewCurrencySensor(d, Upper(uid[3])) EXCEPT !.hass = TRUE]]
        currency_removed ==
            {uid \in DOMAIN currency_inserted : uid \notin desired_currency}
    IN  IF ListenerReturnsEarly(d)
        THEN [outcome |-> "returned",
              active_balance |-> active_balance,
              active_currency |-> active_currency,
              created |-> {}, added |-> {}, removed |-> {}, written |-> {},
              currency_added |-> {}, currency_removed |-> {},
              currency_written |-> {}, host_removed |-> {}]
        ELSE IF p.raised
        THEN [outcome |-> "NameError",
              active_balance |-> inserted,
              active_currency |-> active_currency,
              created |-> created, added |-> {}, removed |-> {}, written |-> {},
              currency_added |-> {}, currency_removed |-> {},
              currency_written |-> {}, host_removed |-> {}]
        ELSE [outcome |-> "completed",
              active_balance |-> Without(inserted, removed),
              active_currency |-> Without(currency_inserted, currency_removed),
              created |-> created, added |-> created, removed |-> removed,
              written |-> DOMAIN inserted \ removed,
              currency_added |-> {CurrencyUniqueId(c) : c \in new_currency},
              currency_removed |-> currency_removed,
              currency_written |-> DOMAIN currency_inserted \ currency_removed,
              host_removed |->
                  AsyncRemove({uid \in removed : inserted[uid].hass})
                  \cup AsyncRemove({uid \in currency_removed :
                                        currency_inserted[uid].hass})]


\* --------------------------------------------------------- API answers

AssetObject(id, f) ==
    [has_id |-> TRUE, id |-> id, balance |-> f.balance, currency |-> f.currency,
     type_name |-> f.type_name, to_base |-> f.to_base]

PlaidAccountObject(id, f) ==
    [has_id |-> TRUE, is_plaid_object |-> TRUE, id |-> id, balance |-> f.balance,
     currency |-> f.currency, type |-> f.type]

\* The sequences that list every element of S once.
Orders(S) ==
    {s \in [1..Cardinality(S) -> S] : \A i, j \in DOMAIN s : s[i] = s[j] => i = j}

\* S in ascending order.
Ascending(S) ==
    CHOOSE s \in Orders(S) : \A i, j \in DOMAIN s : i < j => s[i] < s[j]

\* The answers of get_assets(): a list, in ascending order of id, of assets
\* with ids among `ids` and fields among `fields`.
AssetLists(ids, fields) ==
    UNION {{[i \in 1..Cardinality(S) |-> AssetObject(Ascending(S)[i], f[Ascending(S)[i]])] :
               f \in [S -> fields]} : S \in SUBSET ids}

\* The answers of get_plaid_accounts(): the same, in every order.
PlaidLists(ids, fields) ==
    UNION {UNION {{[i \in 1..Cardinality(S) |-> PlaidAccountObject(o[i], f[o[i]])] :
                      f \in [S -> fields]} : o \in Orders(S)} : S \in SUBSET ids}

\* What the API answers in the specification Spec.
ManualFields ==
    [balance : {RawNone, RawNum(1), RawNum(10), RawNum(-50)},
     currency : {"usd", "EUR"},
     type_name : {"Credit"},
     to_base : {Some(100)}]

PlaidFields ==
    [balance : {NoNumber, Some(1), Some(30)},
     currency : {"USD", "eur"},
     type : {"cash"}]

Users == {UserObject("USD")}

Answers ==
    [assets : AssetLists(ManualIds, ManualFields),
     plaid : PlaidLists(PlaidIds, PlaidFields),
     user : Users]

\* Nothing was fetched yet.
NoAnswers == [assets |-> <<>>, plaid |-> <<>>, user |-> NoUser]

\* The answers a failing fetch had already received (they are discarded).
DiscardedAnswers ==
    {a \in Answers : /\ Len(a.assets) = Cardinality(ManualIds)
                     /\ Len(a.plaid) = 1
                     /\ \A i \in DOMAIN a.assets : a.assets[i].balance = RawNum(10)
                                                   /\ a.assets[i].currency = "EUR"
                     /\ \A i \in DOMAIN a.plaid : a.plaid[i].balance = Some(30)
                                                  /\ a.plaid[i].currency = "USD"}

\* The fetches in which every call answers, for the answers in A: the
\* answers and what async_update_data returns.
FetchesOf(A) ==
    {[answers |-> a,
      r |-> AsyncUpdateData(a.assets, a.plaid, a.user, "none")] : a \in A}

\* The fetches in which the call `failing` raises: the answers and what
\* async_update_data raises.
FailedFetchesOf(A) ==
    {[answers |-> f[1],
      r |-> AsyncUpdateData(f[1].assets, f[1].plaid, f[1].user, f[2])] :
        f \in A \X ApiCalls}

Fetches == FetchesOf(Answers)

FailedFetches == FailedFetchesOf(DiscardedAnswers)

\* ------------------------------------------- a wider set of API answers

\* A record as the API would return it without an `id` attribute.
WithoutId(obj) == [obj EXCEPT !.has_id = FALSE]

\* The lists in which any of the records of a list of `lists` lack an id.
SomeWithoutId(lists) ==
    UNION {{[i \in DOMAIN l |-> IF i \in drop THEN WithoutId(l[i]) ELSE l[i]] :
               drop \in SUBSET DOMAIN l} : l \in lists}

ManualIdsWide == {1, 2}

PlaidIdsWide == {1, 2}

ManualFieldsWide ==
    [balance : {RawNone, RawNum(-50)},
     currency : {"usd", "EUR"},
     type_name : {"Credit", "Credit Card"},
     to_base : {NoNumber, Some(100)}]

PlaidFieldsWide ==
    [balance : {NoNumber, Some(30), Some(50)},
     currency : {"USD", "EUR", None},
     type : {"cash", "credit", "Credit Card"}]

ManualFieldsFixed ==
    [balance : {RawNum(-50)}, currency : {"usd"}, type_name : {"Credit"},
     to_base : {Some(100)}]

PlaidFieldsFixed ==
    [balance : {Some(30)}, currency : {"USD"}, type : {"credit"}]

\* get_user() answers a user with a currency, one without, or nothing.
UsersWide == {UserObject("usd"), UserObject(None), NoUser}

\* What the API answers in the specification SpecWide: any manual assets
\* next to fixed Plaid accounts, or any Plaid accounts next to a fixed
\* manual asset.
AnswersWide ==
    [assets : SomeWithoutId(AssetLists(ManualIdsWide, ManualFieldsWide)),
     plaid : SomeWithoutId(PlaidLists(PlaidIdsWide, PlaidFieldsFixed)),
     user : UsersWide]
    \cup
    [assets : SomeWithoutId(AssetLists(ManualIds, ManualFieldsFixed)),
     plaid : SomeWithoutId(PlaidLists(PlaidIdsWide, PlaidFieldsWide)),
     user : UsersWide]

FetchesWide == FetchesOf(AnswersWide)

\* What the API answers in the specification SpecParse: manual assets
\* whose balance may be a string that does not parse.
ManualFieldsParse ==
    [balance : {RawNone, RawBad, RawNum(-50)},
     currency : {"usd"},
     type_name : {"Credit"},
     to_base : {Some(100)}]

PlaidFieldsParse ==
    [balance : {NoNumber, Some(30)}, currency : {"USD"}, type : {"cash"}]

AnswersParse ==
    [assets : AssetLists(ManualIdsWide, ManualFieldsParse),
     plaid : PlaidLists(PlaidIds, PlaidFieldsParse),
     user : Users]

FetchesParse == FetchesOf(AnswersParse)

\* ------------------------------------------------------- config flow

DEFAULT_UPDATE_INTERVAL == 720

\* What the user may type into the form of the user step.
ApiKeys == {"key1", "key2"}

CurrencyInputs == {"eur", "USD"}

UserInputs ==
    [api_key : ApiKeys, update_interval : {DEFAULT_UPDATE_INTERVAL},
     primary_currency : CurrencyInputs]

\* What lunch_money_api.get_assets does during validation: it returns, or
\* raises an HTTPError (with the status of its response, or without a
\* response), another RequestException, or any other exception.
ApiOutcomes ==
    {[raises |-> "none", status |-> NoNumber],
     [raises |-> "HTTPError", status |-> Some(401)],
     [raises |-> "HTTPError", status |-> Some(500)],
     [raises |-> "HTTPError", status |-> NoNumber],
     [raises |-> "RequestException", status |-> NoNumber],
     [raises |-> "Exception", status |-> NoNumber]}

\* validate_api_key: what it raises for the outcome of the API call.  An
\* HTTPError is re-raised, everything else becomes a ConnectionError.
ValidateApiKeyKeepsExceptions(api) ==
    [raised |-> api.raises, status |-> api.status]

ValidateApiKey(api) ==
    CASE api.raises = "none" -> [raised |-> "none", status |-> NoNumber]
      [] api.raises = "HTTPError" ->
            [raised |-> "HTTPError", status |-> api.status]
      [] OTHER -> [raised |-> "ConnectionError", status |-> NoNumber]

\* What the host raises in async_set_unique_id, in
\* _abort_if_unique_id_configured or in async_create_entry.  The host's
\* _abort_if_unique_id_configured raises AbortFlow when an entry with the
\* unique id exists; AbortFlow is an Exception and not an
\* OperationNotAllowed.
HostOutcomes == {"none", "OperationNotAllowed", "Exception"}

UniqueIdsOf(entries) == {entries[i].unique_id : i \in DOMAIN entries}

AbortIfUniqueIdConfigured(entries, unique_id) ==
    IF unique_id \in UniqueIdsOf(entries) THEN "AbortFlow" ELSE "none"

\* The entry async_create_entry makes of the user's input.
CreatedEntry(user_input) ==
    LET primary_currency == Upper(user_input.primary_currency)
    IN  [unique_id |-> user_input.api_key,
         data |-> [api_key |-> user_input.api_key,
                   update_interval |-> user_input.update_interval,
                   primary_currency |-> primary_currency],
         options |-> [update_interval |-> user_input.update_interval,
                      inverted_asset_types |-> DEFAULT_INVERTED_ASSET_TYPES,
                      primary_currency |-> primary_currency]]

NoFlow == [type |-> "none", errors |-> {}, reason |-> None]

ShowForm(errors) == [type |-> "form", errors |-> errors, reason |-> None]

Abort(reason) == [type |-> "abort", errors |-> {}, reason |-> reason]

CreateEntryResult == [type |-> "create_entry", errors |-> {}, reason |-> None]

\* The exception that leaves the try block of async_step_user, "none" when
\* the block reaches async_create_entry and returns.
RaisedInTry(entries, user_input, api, host) ==
    LET v == ValidateApiKey(api)
        configured == AbortIfUniqueIdConfigured(entries, user_input.api_key)
    IN  IF v.raised /= "none" THEN v
        ELSE IF host /= "none" THEN [raised |-> host, status |-> NoNumber]
        ELSE [raised |-> configured, status |-> NoNumber]

\* async_step_user on the input the user submitted: the result of the flow
\* and the entries afterwards.
AsyncStepUser(entries, user_input, api, host) ==
    LET e == RaisedInTry(entries, user_input, api, host)
    IN  CASE e.raised = "none" ->
                [result |-> CreateEntryResult,
                 entries |-> Append(entries, CreatedEntry(user_input))]
          [] e.raised = "HTTPError" ->
                [result |-> ShowForm({<<"base",
                                IF e.status = Some(401) THEN "invalid_auth"
                                ELSE "cannot_connect">>}),
                 entries |-> entries]
          [] e.raised = "ConnectionError" ->
                [result |-> ShowForm({<<"base", "cannot_connect">>}),
                 entries |-> entries]
          [] e.raised = "OperationNotAllowed" ->
                [result |-> Abort("already_configured"), entries |-> entries]
          [] OTHER ->
                [result |-> ShowForm({<<"base", "unknown">>}),
                 entries |-> entries]

\* What the user may submit in the options flow.
OptionInputs ==
    [update_interval : {DEFAULT_UPDATE_INTERVAL},
     inverted_asset_types : {DEFAULT_INVERTED_ASSET_TYPES},
     primary_currency : CurrencyInputs]

\* The options that async_step_init of the options flow stores.
OptionsStepInit(user_input) ==
    [user_input EXCEPT !.primary_currency = Upper(user_input.primary_currency)]

\* The entry the specifications start with when they do not run the config
\* flow: the flow has created it for the key "key1" and the currency "USD".
ConfiguredEntry ==
    CreatedEntry([api_key |-> "key1",
                  update_interval |-> DEFAULT_UPDATE_INTERVAL,
                  primary_currency |-> "USD"])

\* ------------------------------------------------------------- state

VARIABLES
    entry_state,                        \* "not_loaded" or "loaded"
    data,                               \* coordinator.data
    last_update,                        \* "none", "success" or "UpdateFailed"
    active_balance_sensors,             \* hass.data[DOMAIN][...]: uid -> sensor
    active_currency_net_worth_sensors,  \* hass.data[DOMAIN][...]: uid -> sensor
    net_worth_sensor,                   \* state of LunchMoneyNetWorthSensor
    last_run,                           \* what the last listener run did
    api_response,                       \* what the API answered to the last fetch
    config_entries,                     \* the config entries of the domain
    flow_result,                        \* result of the last config flow step
    add_balance_entities_callback,      \* hass.data[DOMAIN][...]: whose callback
    other_entry                         \* a second entry, "entry2"

vars ==
    <<entry_state, data, last_update, active_balance_sensors,
      active_currency_net_worth_sensors, net_worth_sensor, last_run,
      api_response, config_entries, flow_result,
      add_balance_entities_callback, other_entry>>

\* The state of the config flow and of the entries it made.
flow_vars == <<config_entries, flow_result>>

NoRun ==
    [entry_id |-> None, callback |-> None,
     outcome |-> "none", created |-> {}, added |-> {}, removed |-> {},
     written |-> {}, host_removed |-> {}, updated |-> FALSE]

\* The second entry before it is set up: its state, the data of its
\* coordinator and the state of its net worth sensor.
NoOtherEntry ==
    [entry_state |-> "not_loaded", data |-> NoData, last_update |-> "none",
     net_worth_sensor |-> [native_value |-> NoNumber, unit |-> None]]

Init ==
    /\ entry_state = "not_loaded"
    /\ data = NoData
    /\ last_update = "none"
    /\ active_balance_sensors = <<>>
    /\ active_currency_net_worth_sensors = <<>>
    /\ net_worth_sensor = [native_value |-> NoNumber, unit |-> None]
    /\ last_run = NoRun
    /\ api_response = NoAnswers
    /\ config_entries = <<ConfiguredEntry>>
    /\ flow_result = NoFlow
    /\ add_balance_entities_callback = None
    /\ other_entry = NoOtherEntry

\* _handle_coordinator_update of every balance sensor of the entry that is
\* attached to the host (an entity listens to the coordinator of its entry).
UpdateBalanceSensors(d, active) ==
    [uid \in DOMAIN active |->
        IF active[uid].hass /\ uid[1] = entry_id
        THEN [active[uid] EXCEPT
                 !.state = BalanceState(d, active[uid].is_plaid, active[uid].item_id)]
        ELSE active[uid]]

\* _handle_coordinator_update of every currency sensor of the entry that is
\* attached to the host.
UpdateCurrencySensors(d, active) ==
    [uid \in DOMAIN active |->
        IF active[uid].hass /\ uid[1] = entry_id
        THEN [active[uid] EXCEPT
                 !.state = CurrencyNetWorthState(d, active[uid].currency_code)]
        ELSE active[uid]]

\* What a listener run leaves in last_run; `updated` tells whether the
\* entities' _handle_coordinator_update ran after it, entry_id whose
\* listener ran and `callback` whose add-entities callback it used.
RunRecord(run, updated, callback) ==
    [entry_id |-> entry_id, callback |-> callback,
     outcome |-> run.outcome, created |-> run.created, added |-> run.added,
     removed |-> run.removed,
     written |-> run.written \cup run.currency_written,
     host_removed |-> run.host_removed, updated |-> updated]

\* The coordinator calls its listeners on data d: first the update listener
\* (registered first, in async_setup_entry), then the entities'
\* _handle_coordinator_update.  An exception in the update listener leaves
\* the loop, so the entities are not updated in that cycle.
RunListeners(d) ==
    LET run == Listener(d, active_balance_sensors, active_currency_net_worth_sensors)
        ok == run.outcome /= "NameError"
    IN  /\ active_balance_sensors' =
              IF ok THEN UpdateBalanceSensors(d, run.active_balance)
              ELSE run.active_balance
        /\ active_currency_net_worth_sensors' =
              IF ok THEN UpdateCurrencySensors(d, run.active_currency)
              ELSE run.active_currency
        /\ net_worth_sensor' = IF ok THEN NetWorthState(d) ELSE net_worth_sensor
        /\ last_run' = RunRecord(run, ok, add_balance_entities_callback)

\* sensor.async_setup_entry on data d: the net worth sensor is created and
\* added, the listener is registered and run once.
SetupSensorPlatform(d) ==
    LET run == Listener(d, active_balance_sensors, active_currency_net_worth_sensors)
    IN  /\ active_balance_sensors' = run.active_balance
        /\ active_currency_net_worth_sensors' = run.active_currency
        /\ net_worth_sensor' = NetWorthState(d)
        /\ add_balance_entities_callback' = entry_id
        /\ last_run' = RunRecord(run, FALSE, entry_id)

\* __init__.async_setup_entry with the outcome r of async_update_data in the
\* first refresh; the sensor platform is set up when it succeeded, and the
\* entry stays not loaded when it failed.
SetupEntry(r) ==
    /\ entry_state = "not_loaded"
    /\ IF r.raised = "none"
       THEN /\ entry_state' = "loaded"
            /\ data' = r.data
            /\ last_update' = "success"
            /\ SetupSensorPlatform(r.data)
       ELSE /\ last_update' = r.raised
            /\ UNCHANGED <<entry_state, data, active_balance_sensors,
                           active_currency_net_worth_sensors,
                           net_worth_sensor, last_run,
                           add_balance_entities_callback>>

\* One refresh cycle of the coordinator with the outcome r of
\* async_update_data.  A successful fetch publishes the data and calls the
\* listeners; a failed one keeps the data, and the listeners are called on
\* it when the previous fetch had succeeded.
Poll(r) ==
    /\ entry_state = "loaded"
    /\ UNCHANGED <<entry_state, add_balance_entities_callback>>
    /\ IF r.raised = "none"
       THEN /\ data' = r.data
            /\ last_update' = "success"
            /\ RunListeners(r.data)
       ELSE /\ last_update' = r.raised
            /\ UNCHANGED data
            /\ IF last_update = "success"
               THEN RunListeners(data)
               ELSE UNCHANGED <<active_balance_sensors,
                                active_currency_net_worth_sensors,
                                net_worth_sensor, last_run>>

\* The entry is set up, or a refresh cycle runs, on one of the fetches F.
SetupEntryOn(F) ==
    /\ entry_state = "not_loaded"
    /\ config_entries /= <<>>
    /\ UNCHANGED <<flow_vars, other_entry>>
    /\ \E f \in F : SetupEntry(f.r) /\ api_response' = f.answers

PollOn(F) ==
    /\ entry_state = "loaded"
    /\ UNCHANGED <<flow_vars, other_entry>>
    /\ \E f \in F : Poll(f.r) /\ api_response' = f.answers

SetupEntrySucceeds == SetupEntryOn(Fetches)

SetupEntryFails == SetupEntryOn(FailedFetches)

RefreshSucceeds == PollOn(Fetches)

RefreshFails == PollOn(FailedFetches)

Next ==
    \/ SetupEntrySucceeds
    \/ SetupEntryFails
    \/ RefreshSucceeds
    \/ RefreshFails

Spec == Init /\ [][Next]_vars

\* The entry is set up on one of the wider answers; afterwards the fetch
\* fails, and the coordinator calls the listeners on the data it has.
SetupEntryWide == SetupEntryOn(FetchesWide)

NextWide ==
    \/ SetupEntryWide
    \/ RefreshFails

SpecWide == Init /\ [][NextWide]_vars

\* The entry is set up and refreshed on answers with balances that may not
\* parse.
SetupEntryParse == SetupEntryOn(FetchesParse)

RefreshParse == PollOn(FetchesParse)

NextParse ==
    \/ SetupEntryParse
    \/ RefreshParse
    \/ RefreshFails

SpecParse == Init /\ [][NextParse]_vars


\* ------------------------------------------- config flow and reload

\* The state of the entry "entry1" and of its platform.
entry_vars ==
    <<entry_state, data, last_update, active_balance_sensors,
      active_currency_net_worth_sensors, net_worth_sensor, last_run,
      api_response, add_balance_entities_callback, other_entry>>

\* The entities of the platform leave the host when the platform is
\* unloaded; the dictionaries in hass.data[DOMAIN] keep the objects.
Detached(active) ==
    [uid \in DOMAIN active |-> [active[uid] EXCEPT !.hass = FALSE]]

\* __init__.async_unload_entry: the platform is unloaded and the
\* coordinator is popped from hass.data[DOMAIN]; nothing else is.
UnloadEntry ==
    /\ entry_state' = "not_loaded"
    /\ data' = NoData
    /\ last_update' = "none"
    /\ active_balance_sensors' = Detached(active_balance_sensors)
    /\ active_currency_net_worth_sensors' =
           Detached(active_currency_net_worth_sensors)
    /\ net_worth_sensor' = [native_value |-> NoNumber, unit |-> None]
    /\ last_run' = NoRun
    /\ UNCHANGED <<api_response, add_balance_entities_callback, other_entry>>

\* The user opens the form of the user step (user_input is None).
StepUserOpens ==
    /\ flow_result' = ShowForm({})
    /\ UNCHANGED config_entries
    /\ UNCHANGED entry_vars

\* The user submits the form of the user step with `user_input`, while the
\* API call of the validation does `api` and the host calls raise `host`.
StepUserSubmitsWith(user_input, api, host) ==
    LET r == AsyncStepUser(config_entries, user_input, api, host)
    IN  /\ flow_result' = r.result
        /\ config_entries' = r.entries
        /\ UNCHANGED entry_vars

StepUserSubmits ==
    \E user_input \in UserInputs, api \in ApiOutcomes, host \in HostOutcomes :
        StepUserSubmitsWith(user_input, api, host)

\* The user submits the options flow of the first entry.  When the options
\* changed and the entry is loaded, the host calls async_reload_entry,
\* which unloads the entry; the host then sets it up again.
OptionsSubmits ==
    /\ config_entries /= <<>>
    /\ \E user_input \in OptionInputs :
          LET options == OptionsStepInit(user_input)
          IN  /\ config_entries' =
                     [config_entries EXCEPT ![1].options = options]
              /\ flow_result' = CreateEntryResult
              /\ IF entry_state = "loaded"
                    /\ options /= config_entries[1].options
                 THEN UnloadEntry
                 ELSE UNCHANGED entry_vars

\* What the API answers in the specification SpecFlow.
ManualFieldsFlow ==
    [balance : {RawNum(-50)}, currency : {"usd"}, type_name : {"Credit"},
     to_base : {Some(100)}]

PlaidFieldsFlow ==
    [balance : {Some(30)}, currency : {"eur"}, type : {"cash"}]

AnswersFlow ==
    [assets : AssetLists(ManualIds, ManualFieldsFlow),
     plaid : PlaidLists(PlaidIds, PlaidFieldsFlow),
     user : Users]

FetchesFlow == FetchesOf(AnswersFlow)

SetupEntryFlow == SetupEntryOn(FetchesFlow)

InitFlow ==
    /\ entry_state = "not_loaded"
    /\ data = NoData
    /\ last_update = "none"
    /\ active_balance_sensors = <<>>
    /\ active_currency_net_worth_sensors = <<>>
    /\ net_worth_sensor = [native_value |-> NoNumber, unit |-> None]
    /\ last_run = NoRun
    /\ api_response = NoAnswers
    /\ config_entries = <<>>
    /\ flow_result = NoFlow
    /\ add_balance_entities_callback = None
    /\ other_entry = NoOtherEntry

NextFlow ==
    \/ StepUserOpens
    \/ StepUserSubmits
    \/ OptionsSubmits
    \/ SetupEntryFlow
    \/ SetupEntryFails

SpecFlow == InitFlow /\ [][NextFlow]_vars


\* ------------------------------------------- listener on missing data

\* The values of coordinator.data that are None or have neither list.
MissingData ==
    {NoData, DataWithoutLists(NoUser), DataWithoutLists(UserObject("USD"))}

\* The listener is called while coordinator.data is one of the missing
\* values.
ListenerRunsOnMissingData ==
    /\ entry_state = "loaded"
    /\ UNCHANGED <<entry_state, last_update, net_worth_sensor, api_response,
                   add_balance_entities_callback, other_entry>>
    /\ UNCHANGED flow_vars
    /\ \E d \in MissingData :
          LET run == Listener(d, active_balance_sensors,
                              active_currency_net_worth_sensors)
          IN  /\ data' = d
              /\ active_balance_sensors' = run.active_balance
              /\ active_currency_net_worth_sensors' = run.active_currency
              /\ last_run' = RunRecord(run, FALSE,
                                       add_balance_entities_callback)

RefreshFlow == PollOn(FetchesFlow)

NextListener ==
    \/ SetupEntrySucceeds
    \/ RefreshFlow
    \/ RefreshFails
    \/ ListenerRunsOnMissingData

SpecListener == Init /\ [][NextListener]_vars

\* ------------------------------------------------ a second config entry

other_entry_id == "entry2"

\* The listener and the entities of the second entry are those of the
\* first with the other entry id in every unique id they build or test:
\* they are the model's listener and entities on the dictionaries in which
\* the ids of the two entries are exchanged.
Exchanged(uid) ==
    [uid EXCEPT ![1] = IF @ = entry_id THEN other_entry_id
                       ELSE IF @ = other_entry_id THEN entry_id ELSE @]

ExchangedIds(uids) == {Exchanged(uid) : uid \in uids}

ExchangedDict(active) ==
    [uid \in ExchangedIds(DOMAIN active) |-> active[Exchanged(uid)]]

ExchangedRun(record) ==
    [record EXCEPT !.entry_id = other_entry_id,
                   !.created = ExchangedIds(@),
                   !.added = ExchangedIds(@),
                   !.removed = ExchangedIds(@),
                   !.written = ExchangedIds(@),
                   !.host_removed = ExchangedIds(@)]

\* The coordinator of the second entry calls its listeners on data d.
RunOtherListeners(d) ==
    LET run == Listener(d, ExchangedDict(active_balance_sensors),
                        ExchangedDict(active_currency_net_worth_sensors))
        ok == run.outcome /= "NameError"
    IN  /\ active_balance_sensors' =
              ExchangedDict(IF ok THEN UpdateBalanceSensors(d, run.active_balance)
                            ELSE run.active_balance)
        /\ active_currency_net_worth_sensors' =
              ExchangedDict(IF ok THEN UpdateCurrencySensors(d, run.active_currency)
                            ELSE run.active_currency)
        /\ other_entry' =
              [other_entry EXCEPT
                  !.data = d,
                  !.net_worth_sensor = IF ok THEN NetWorthState(d) ELSE @]
        /\ last_run' =
              ExchangedRun(RunRecord(run, ok, add_balance_entities_callback))
        /\ UNCHANGED add_balance_entities_callback

\* sensor.async_setup_entry of the second entry on data d.
SetupOtherSensorPlatform(d) ==
    LET run == Listener(d, ExchangedDict(active_balance_sensors),
                        ExchangedDict(active_currency_net_worth_sensors))
    IN  /\ active_balance_sensors' = ExchangedDict(run.active_balance)
        /\ active_currency_net_worth_sensors' = ExchangedDict(run.active_currency)
        /\ other_entry' =
              [entry_state |-> "loaded", data |-> d, last_update |-> "success",
               net_worth_sensor |-> NetWorthState(d)]
        /\ add_balance_entities_callback' = other_entry_id
        /\ last_run' = ExchangedRun(RunRecord(run, FALSE, other_entry_id))

\* The state of the first entry.
first_entry_vars ==
    <<entry_state, data, last_update, net_worth_sensor, api_response>>

\* The tracking dictionaries, the callback and the record of the last run.
domain_vars ==
    <<active_balance_sensors, active_currency_net_worth_sensors,
      add_balance_entities_callback, last_run>>

\* __init__.async_setup_entry of the second entry on one of the fetches F.
SetupOtherEntryOn(F) ==
    /\ other_entry.entry_state = "not_loaded"
    /\ UNCHANGED <<first_entry_vars, flow_vars>>
    /\ \E f \in F :
          IF f.r.raised = "none"
          THEN SetupOtherSensorPlatform(f.r.data)
          ELSE /\ other_entry' = [other_entry EXCEPT !.last_update = f.r.raised]
               /\ UNCHANGED domain_vars

\* One refresh cycle of the coordinator of the second entry on one of the
\* fetches F.
PollOtherEntryOn(F) ==
    /\ other_entry.entry_state = "loaded"
    /\ UNCHANGED <<first_entry_vars, flow_vars>>
    /\ \E f \in F :
          IF f.r.raised = "none"
          THEN RunOtherListeners(f.r.data)
          ELSE IF other_entry.last_update = "success"
          THEN RunOtherListeners(other_entry.data)
          ELSE UNCHANGED <<domain_vars, other_entry>>

SetupOtherEntryFlow == SetupOtherEntryOn(FetchesFlow)

SetupOtherEntryFails == SetupOtherEntryOn(FailedFetches)

RefreshOtherEntryFlow == PollOtherEntryOn(FetchesFlow)

RefreshOtherEntryFails == PollOtherEntryOn(FailedFetches)

NextTwoEntries ==
    \/ SetupEntryFlow
    \/ SetupEntryFails
    \/ RefreshFlow
    \/ RefreshFails
    \/ SetupOtherEntryFlow
    \/ SetupOtherEntryFails
    \/ RefreshOtherEntryFlow
    \/ RefreshOtherEntryFails

SpecTwoEntries == Init /\ [][NextTwoEntries]_vars

\* ------------------------------------------- vocabulary of the properties

\* The kinds of record and the composite keys (source kind, id).
Kinds == {"manual", "plaid"}

CompositeKeys == (({"manual"} \X ManualIds) \cup ({"plaid"} \X PlaidIds))

\* The tracked sensors of composite key k.
SensorsOf(active, k) ==
    {uid \in DOMAIN active :
        /\ active[uid].is_plaid = (k[1] = "plaid")
        /\ active[uid].item_id = k[2]}

Tracked(active, k) == SensorsOf(active, k) /= {}

\* The composite key a unique id of the tracking dict stands for.
KeyOf(active, uid) ==
    <<IF active[uid].is_plaid THEN "plaid" ELSE "manual", active[uid].item_id>>

\* The fetched records of one kind, by id.
RecordsOf(d, kind) ==
    IF kind = "plaid" THEN d.plaid_accounts.val ELSE d.manual_assets.val

RecordPresent(d, k) == k[2] \in DOMAIN RecordsOf(d, k[1])

\* The balance of a fetched record as a number, None when it is absent or
\* cannot be parsed.
BalanceOf(d, k) ==
    LET rec == RecordsOf(d, k[1])[k[2]]
    IN  IF k[1] = "plaid" THEN rec.balance
        ELSE IF rec.balance.tag = "num" THEN <<rec.balance.v>> ELSE <<>>

\* The record is fetched and its balance is present with |balance| >= 1e-6.
NonZero(d, k) ==
    /\ RecordPresent(d, k)
    /\ BalanceOf(d, k) /= <<>>
    /\ (BalanceOf(d, k)[1] >= ZERO_BALANCE_EPSILON
        \/ BalanceOf(d, k)[1] <= -ZERO_BALANCE_EPSILON)

\* The record is fetched and its balance is absent or |balance| < 1e-6.
ZeroOrAbsentBalance(d, k) == RecordPresent(d, k) /\ ~NonZero(d, k)

\* The record is fetched with a balance that is present and below epsilon.
BelowEpsilon(d, k) ==
    /\ RecordPresent(d, k)
    /\ BalanceOf(d, k) /= <<>>
    /\ ~NonZero(d, k)

\* A step in which the listener reconciles freshly fetched data: the setup
\* of the entry or a refresh whose fetch succeeded.
ReconcilesFetchedData == last_update' = "success" /\ data' /= NoData

\* The composite keys of the unique ids in a set.
KeysOf(active, uids) == {KeyOf(active, uid) : uid \in uids \cap DOMAIN active}

\* ------------------------------------------------------------- C1

\* C1: a tracked entity whose record is still fetched, but with a balance
\* that is absent or below epsilon, is removed from the tracked set by that
\* refresh.  Stated for the refreshes the listener runs to its end, so that
\* a violation does not rest on the NameError of the Plaid loop.
C1_ZeroBalanceIsRemoved ==
    [][(ReconcilesFetchedData /\ last_run'.outcome = "completed") =>
          \A k \in CompositeKeys :
              (Tracked(active_balance_sensors, k) /\ ZeroOrAbsentBalance(data', k))
                  => ~Tracked(active_balance_sensors', k)]_vars

\* ------------------------------------------------------------- C2

\* C2: after every completed cycle every fetched record with a non-zero
\* balance is tracked, and one that was not tracked before the cycle was
\* created and handed to the host in that cycle.
C2_NonZeroIsTracked ==
    [][(ReconcilesFetchedData /\ last_run'.outcome = "completed") =>
          \A k \in CompositeKeys :
              NonZero(data', k) =>
                  /\ Tracked(active_balance_sensors', k)
                  /\ ~Tracked(active_balance_sensors, k) =>
                        /\ SensorsOf(active_balance_sensors', k) \subseteq last_run'.created
                        /\ SensorsOf(active_balance_sensors', k) \subseteq last_run'.added]_vars

\* A completed cycle created a manual and a Plaid sensor, one of them for a
\* negative balance.
C2_Witness ==
    /\ last_run.outcome = "completed"
    /\ \E k \in CompositeKeys :
          /\ k[1] = "manual" /\ NonZero(data, k) /\ BalanceOf(data, k)[1] < 0
          /\ SensorsOf(active_balance_sensors, k) /= {}
          /\ SensorsOf(active_balance_sensors, k) \subseteq last_run.added
    /\ \E k \in CompositeKeys :
          /\ k[1] = "plaid" /\ NonZero(data, k)
          /\ SensorsOf(active_balance_sensors, k) /= {}
          /\ SensorsOf(active_balance_sensors, k) \subseteq last_run.added

\* ------------------------------------------------------------- C3

\* C3: a tracked entity whose record is absent from the fetched data is in
\* the removed set of that cycle and untracked when the cycle ends.
C3_VanishedIsRemoved ==
    [][ReconcilesFetchedData =>
          \A k \in CompositeKeys :
              (Tracked(active_balance_sensors, k) /\ ~RecordPresent(data', k)) =>
                  /\ SensorsOf(active_balance_sensors, k) \subseteq last_run'.removed
                  /\ ~Tracked(active_balance_sensors', k)]_vars


\* ------------------------------------------------------------- C4

\* What a second run of the listener on the same data would do.
SecondRun ==
    Listener(data, active_balance_sensors, active_currency_net_worth_sensors)

\* C4: reconciliation is idempotent under stable input: once the listener
\* has run on the fetched data, a second run on the same data creates and
\* adds no entity, removes none and leaves the tracked keys as they are.
C4_Idempotent ==
    last_run.outcome \in {"completed", "NameError"} =>
        /\ SecondRun.created = {}
        /\ SecondRun.added = {}
        /\ SecondRun.removed = {}
        /\ DOMAIN SecondRun.active_balance = DOMAIN active_balance_sensors

\* The first run both added and removed an entity.
C4_Witness ==
    /\ last_run.outcome = "completed"
    /\ last_run.added /= {}
    /\ last_run.removed /= {}

\* ------------------------------------------------------------- C5

\* A step of a cycle in which one of the three API calls raises.
FetchFailsInCycle == RefreshFails \/ SetupEntryFails

PostCycleKeys(active, d) ==
    {k \in CompositeKeys :
        RecordPresent(d, k) /\ (Tracked(active, k) \/ NonZero(d, k))}

\* C6: the tracked mapping is replaced as a whole: after any step it is the
\* complete mapping of before the cycle or the complete one of after it,
\* and it holds no key of an entity that was not handed to the host.
C6_AtomicMapping ==
    [][/\ \/ active_balance_sensors' = active_balance_sensors
          \/ KeysOf(active_balance_sensors', DOMAIN active_balance_sensors')
                = PostCycleKeys(active_balance_sensors, data')
       /\ \A uid \in DOMAIN active_balance_sensors' \ DOMAIN active_balance_sensors :
              uid \in last_run'.added]_vars

\* ------------------------------------------------------------- C7

\* C7: a key that was removed and whose record reappears with a non-zero
\* balance gets a fresh added event with a newly constructed entity.  Stated
\* for a record that reappears in the cycle after its removal.
C7_ReappearingIsAdded ==
    [][ReconcilesFetchedData =>
          \A uid \in last_run.removed :
              \A k \in CompositeKeys :
                  (k = <<uid[2], uid[3]>> /\ NonZero(data', k)) =>
                      /\ SensorsOf(active_balance_sensors', k) /= {}
                      /\ SensorsOf(active_balance_sensors', k) \subseteq last_run'.created
                      /\ SensorsOf(active_balance_sensors', k) \subseteq last_run'.added]_vars

\* ------------------------------------------------------------- C8

\* The currency, the type category and the signed balance of a fetched
\* record: the balance negated when the category is in the inverted set.
CurrencyOf(d, k) == RecordsOf(d, k[1])[k[2]].currency

TypeCategory(d, k) ==
    LET rec == RecordsOf(d, k[1])[k[2]]
    IN  Lower(IF k[1] = "plaid" THEN rec.type ELSE rec.type_name)

SignedBalance(d, k) ==
    IF TypeCategory(d, k) \in inverted_types_config
    THEN -BalanceOf(d, k)[1]
    ELSE BalanceOf(d, k)[1]

\* What an entity of composite key k shows when it reads the record of its
\* own kind in d.
OwnRecordState(d, k) ==
    IF RecordPresent(d, k)
    THEN [native_value |-> IF BalanceOf(d, k) = <<>> THEN <<>>
                           ELSE <<SignedBalance(d, k)>>,
          unit |-> Upper(CurrencyOf(d, k))]
    ELSE [native_value |-> <<>>, unit |-> "None"]

SignedSum(d, keys, c) ==
    LET S == {k \in keys : /\ RecordPresent(d, k)
                           /\ BalanceOf(d, k) /= <<>>
                           /\ Lower(CurrencyOf(d, k)) = Lower(c)}
    IN  SumOver(S, [k \in S |-> SignedBalance(d, k)])

\* The tracked composite keys.
TrackedKeys == {k \in CompositeKeys : Tracked(active_balance_sensors, k)}

DataWithout(d, k) ==
    LET drop(dict) ==
            [keys |-> SelectSeq(dict.keys, LAMBDA id : id /= k[2]),
             val |-> [id \in DOMAIN dict.val \ {k[2]} |-> dict.val[id]]]
    IN  IF k[1] = "plaid"
        THEN [d EXCEPT !.plaid_accounts = drop(d.plaid_accounts)]
        ELSE [d EXCEPT !.manual_assets = drop(d.manual_assets)]

\* The per-currency entities of the currency of record k.
CurrencySensorsOf(d, k) ==
    {uid \in DOMAIN active_currency_net_worth_sensors :
        Lower(active_currency_net_worth_sensors[uid].currency_code)
           = Lower(CurrencyOf(d, k))}

CurrenciesWithTotal ==
    {active_currency_net_worth_sensors[uid].currency_code :
        uid \in DOMAIN active_currency_net_worth_sensors}

\* The upper-cased currencies of the fetched records among `keys`.
CurrenciesOf(d, keys) ==
    {Upper(CurrencyOf(d, k)) :
        k \in {x \in keys : RecordPresent(d, x) /\ Truthy(CurrencyOf(d, x))}}

CompositeKeysWide ==
    ({"manual"} \X ManualIdsWide) \cup ({"plaid"} \X PlaidIdsWide)

\* The fetched Linked records.
LinkedKeys == {k \in CompositeKeysWide : k[1] = "plaid" /\ RecordPresent(data, k)}

\* The user's primary currency, None when it is not known.
PrimaryCurrency(d) == d.user.currency

\* The Linked record has a balance and a currency, and its currency is the
\* user's primary currency, compared without regard to case.
LinkedIncluded(d, k) ==
    /\ BalanceOf(d, k) /= <<>>
    /\ CurrencyOf(d, k) /= "None"
    /\ PrimaryCurrency(d) /= "None" /\ PrimaryCurrency(d) /= ""
    /\ Lower(CurrencyOf(d, k)) = Lower(PrimaryCurrency(d))

\* What record k adds to the primary total and to the total of the
\* per-currency entity uid: the total minus the total of the data without k.
PrimaryShare(d, k) ==
    net_worth_sensor.native_value[1]
       - NetWorthState(DataWithout(d, k)).native_value[1]

CurrencyShare(d, k, uid) ==
    LET s == active_currency_net_worth_sensors[uid]
    IN  s.state.native_value[1]
           - CurrencyNetWorthState(DataWithout(d, k), s.currency_code).native_value[1]

BaseValueOf(d, k) == RecordsOf(d, k[1])[k[2]].to_base

\* The sum of the base-currency values of the Manual records among `keys`
\* that are fetched with a base value, each negated exactly when the type
\* category of the record is in the inverted set.
ManualBaseSum(d, keys) ==
    LET S == {k \in keys : /\ k[1] = "manual" /\ RecordPresent(d, k)
                           /\ BaseValueOf(d, k) /= <<>>}
    IN  SumOver(S, [k \in S |->
                      IF TypeCategory(d, k) \in inverted_types_config
                      THEN -BaseValueOf(d, k)[1]
                      ELSE BaseValueOf(d, k)[1]])

\* The Linked part of the primary total.
LinkedPrimarySum(d) ==
    LET S == {k \in CompositeKeysWide :
                 k[1] = "plaid" /\ RecordPresent(d, k) /\ LinkedIncluded(d, k)}
    IN  SumOver(S, [k \in S |-> SignedBalance(d, k)])

\* The Manual part of the primary total: the total less its Linked part.
ManualPartOfPrimaryTotal ==
    net_worth_sensor.native_value[1] - LinkedPrimarySum(data)

TrackedKeysWide ==
    {k \in CompositeKeysWide : Tracked(active_balance_sensors, k)}

\* C13 as the specification states it: the Manual part of the primary
\* total is the signed sum of the base values of the tracked Manual records.
C13_BaseValuesOfTracked ==
    entry_state = "loaded" =>
        ManualPartOfPrimaryTotal = ManualBaseSum(data, TrackedKeysWide)

\* C13, amended: the Manual part of the primary total is the signed sum of
\* the base values of all the fetched Manual records that have one, tracked
\* or not; a record without a base value adds nothing.
C13_BaseValuesOfFetched ==
    entry_state = "loaded" =>
        /\ ManualPartOfPrimaryTotal = ManualBaseSum(data, CompositeKeysWide)
        /\ \A k \in CompositeKeysWide :
              (k[1] = "manual" /\ RecordPresent(data, k)
               /\ BaseValueOf(data, k) = <<>>) => PrimaryShare(data, k) = 0

\* A tracked credit asset with base value 100 adds -100, an asset that is
\* not tracked and not inverted adds its 100.
C13_Witness ==
    /\ entry_state = "loaded" /\ last_run.outcome = "completed"
    /\ \E k1, k2 \in CompositeKeysWide :
          /\ k1[1] = "manual" /\ k2[1] = "manual"
          /\ RecordPresent(data, k1) /\ RecordPresent(data, k2)
          /\ k1 \in TrackedKeysWide /\ k2 \notin TrackedKeysWide
          /\ TypeCategory(data, k1) = "credit" /\ BaseValueOf(data, k1) = <<100>>
          /\ TypeCategory(data, k2) = "credit card" /\ BaseValueOf(data, k2) = <<100>>
          /\ PrimaryShare(data, k1) = -100
          /\ PrimaryShare(data, k2) = 100
    /\ ManualPartOfPrimaryTotal = 0

\* ------------------------------------------------------------- C14

\* C14: no listener run is aborted by an error: every run reaches the add
\* phase, the remove phase and the per-currency phase.
C14_ListenerCompletes == last_run.outcome /= "NameError"

\* ------------------------------------------------------------- C15

\* The Manual record of key k is fetched with a balance that does not parse.
HasBadBalance(d, k) ==
    /\ k[1] = "manual" /\ RecordPresent(d, k)
    /\ RecordsOf(d, k[1])[k[2]].balance.tag = "bad"

\* The data with every balance that does not parse replaced by None.
BadAsAbsent(d) ==
    [d EXCEPT !.manual_assets.val =
        [id \in DOMAIN @ |->
            IF @[id].balance.tag = "bad"
            THEN [@[id] EXCEPT !.balance = RawNone]
            ELSE @[id]]]

C16_TotalsFollowData ==
    entry_state = "loaded" =>
        /\ net_worth_sensor = NetWorthState(data)
        /\ active_currency_net_worth_sensors
              = Listener(data, <<>>, <<>>).active_currency

\* ------------------------------------------------------------- C17

\* C17: when no primary currency is known (no user object, or one without
\* a currency), the primary total is still computed (the signed sum of the
\* Manual base values; no Linked record is included) and has no unit, and
\* whenever the listener completed, the per-currency entities and their
\* totals are exactly those of the same data with a primary currency known.
C17_NoPrimaryCurrency ==
    (entry_state = "loaded" /\ ~Truthy(PrimaryCurrency(data))) =>
        /\ net_worth_sensor.unit = "None"
        /\ net_worth_sensor.native_value
              = <<ManualBaseSum(data, CompositeKeysWide)>>
        /\ last_run.outcome = "completed" =>
              LET known == [data EXCEPT !.user = UserObject("USD")]
              IN  /\ active_currency_net_worth_sensors
                        = Listener(known, <<>>, <<>>).active_currency
                  /\ \A uid \in DOMAIN active_currency_net_worth_sensors :
                        LET s == active_currency_net_worth_sensors[uid]
                        IN  s.state = CurrencyNetWorthState(known, s.currency_code)

\* The user object has no currency: the primary total is the -100 of the
\* credit asset, without unit; a Linked USD account with a balance adds
\* nothing to it and has its per-currency total.
C17_Witness ==
    /\ entry_state = "loaded" /\ last_run.outcome = "completed"
    /\ data.user.present /\ PrimaryCurrency(data) = "None"
    /\ net_worth_sensor = [native_value |-> <<-100>>, unit |-> "None"]
    /\ \E k \in LinkedKeys :
          /\ NonZero(data, k) /\ CurrencyOf(data, k) = "USD"
          /\ PrimaryShare(data, k) = 0
          /\ \E uid \in CurrencySensorsOf(data, k) :
                CurrencyShare(data, k, uid) = SignedBalance(data, k)

\* ------------------------------------------------------------- C18

\* The record's lower-cased type category is an element of the configured
\* inverted set.
ExactlyInverted(d, k) == TypeCategory(d, k) \in DEFAULT_INVERTED_ASSET_TYPES

\* x with the sign the inversion of record k gives it.
Signed(d, k, x) == IF ExactlyInverted(d, k) THEN -x ELSE x

\* C18: the sign is decided by exact membership of the lower-cased type
\* category in the configured inverted set, the same in all four places:
\* the value of the record's balance entity, its balance_inverted
\* attribute, the record's part of the primary total and its part of the
\* per-currency total (the latter whenever the listener completed).
C18_InversionIsExact ==
    entry_state = "loaded" =>
        \A k \in CompositeKeysWide :
            RecordPresent(data, k) =>
                /\ \A uid \in SensorsOf(active_balance_sensors, k) :
                      LET s == active_balance_sensors[uid]
                      IN  /\ BalanceOf(data, k) /= <<>> =>
                                s.state.native_value
                                   = <<Signed(data, k, BalanceOf(data, k)[1])>>
                          /\ ExtraStateAttributes(data, s.is_plaid, s.item_id).balance_inverted
                                = ExactlyInverted(data, k)
                /\ (k[1] = "manual" /\ BaseValueOf(data, k) /= <<>>) =>
                      PrimaryShare(data, k) = Signed(data, k, BaseValueOf(data, k)[1])
                /\ (k[1] = "plaid" /\ LinkedIncluded(data, k)) =>
                      PrimaryShare(data, k) = Signed(data, k, BalanceOf(data, k)[1])
                /\ (/\ last_run.outcome = "completed"
                    /\ BalanceOf(data, k) /= <<>>
                    /\ Truthy(CurrencyOf(data, k))) =>
                       \A uid \in CurrencySensorsOf(data, k) :
                           CurrencyShare(data, k, uid)
                              = Signed(data, k, BalanceOf(data, k)[1])

\* Two tracked assets with the same balance and base value, one of type
\* "Credit", one of type "Credit Card": the first is inverted in all four
\* places, the second in none.
C18_Witness ==
    /\ entry_state = "loaded" /\ last_run.outcome = "completed"
    /\ \E k1, k2 \in CompositeKeysWide :
          /\ k1[1] = "manual" /\ k2[1] = "manual"
          /\ NonZero(data, k1) /\ NonZero(data, k2)
          /\ BalanceOf(data, k1) = BalanceOf(data, k2)
          /\ BaseValueOf(data, k1) = <<100>> /\ BaseValueOf(data, k2) = <<100>>
          /\ CurrencyOf(data, k1) /= CurrencyOf(data, k2)
          /\ TypeCategory(data, k1) = "credit"
          /\ TypeCategory(data, k2) = "credit card"
          /\ \E u1 \in SensorsOf(active_balance_sensors, k1) :
               \E u2 \in SensorsOf(active_balance_sensors, k2) :
                  /\ active_balance_sensors[u1].state.native_value
                        = <<-BalanceOf(data, k1)[1]>>
                  /\ active_balance_sensors[u2].state.native_value
                        = BalanceOf(data, k2)
                  /\ ExtraStateAttributes(data, FALSE, k1[2]).balance_inverted
                  /\ ~ExtraStateAttributes(data, FALSE, k2[2]).balance_inverted
          /\ PrimaryShare(data, k1) = -100 /\ PrimaryShare(data, k2) = 100
          /\ \E c1 \in CurrencySensorsOf(data, k1) :
                CurrencyShare(data, k1, c1) = -BalanceOf(data, k1)[1]
          /\ \E c2 \in CurrencySensorsOf(data, k2) :
                CurrencyShare(data, k2, c2) = BalanceOf(data, k2)[1]

\* ------------------------------------------------------------- C19

\* The records of a raw list that have an id, by id.
PublishedFrom(list) ==
    LET ids == {list[i].id : i \in {j \in DOMAIN list : list[j].has_id}}
    IN  [id \in ids |->
            list[CHOOSE i \in DOMAIN list : list[i].has_id /\ list[i].id = id]]

\* C19: a fetch whose calls all answered is published, and the published
\* Manual and Linked records are exactly the raw records that have an id,
\* each under its id and unchanged, however many records of the batch lack
\* one.
C19_RecordsWithIdArePublished ==
    last_update = "success" =>
        /\ ~data.is_none
        /\ data.manual_assets.val = PublishedFrom(api_response.assets)
        /\ data.plaid_accounts.val = PublishedFrom(api_response.plaid)

\* Of two manual assets and two Plaid accounts fetched, one of each kind
\* lacks an id; the other one of each kind is published.
C19_Witness ==
    /\ entry_state = "loaded" /\ last_update = "success"
    /\ Len(api_response.assets) = 2 /\ Len(api_response.plaid) = 2
    /\ \E i, j \in 1..2 :
          /\ ~api_response.assets[i].has_id /\ ~api_response.plaid[j].has_id
          /\ api_response.assets[3 - i].has_id /\ api_response.plaid[3 - j].has_id
          /\ DOMAIN data.manual_assets.val = {api_response.assets[3 - i].id}
          /\ DOMAIN data.plaid_accounts.val = {api_response.plaid[3 - j].id}

\* ------------------------------------------------------------- C20

\* C20: after a cycle the listener completed, every tracked balance entity
\* shows its record of the current data: the current balance, negated when
\* inverted, and the current currency in upper case; nothing is left from
\* an earlier cycle.
C20_EntitiesShowCurrentRecord ==
    last_run.outcome = "completed" =>
        \A uid \in DOMAIN active_balance_sensors :
            active_balance_sensors[uid].state
               = OwnRecordState(data, KeyOf(active_balance_sensors, uid))

\* ------------------------------------------------------------- C21

\* The primary currency stored in the options of the entry.
ConfiguredPrimaryCurrency == config_entries[1].options.primary_currency

\* C21: while the entry is loaded, the net-worth sensor reports the primary
\* currency stored in the options of the entry as its unit.
C21_ConfiguredCurrencyIsUsed ==
    entry_state = "loaded" =>
        net_worth_sensor.unit = ConfiguredPrimaryCurrency

\* ------------------------------------------------------------- C22

\* The unique ids the step deletes from the two tracking dictionaries.
DeletedFromTracking ==
    (DOMAIN active_balance_sensors \ DOMAIN active_balance_sensors')
    \cup (DOMAIN active_currency_net_worth_sensors
              \ DOMAIN active_currency_net_worth_sensors')

\* C22: every entity that a cycle of the listener deletes from a tracking
\* dictionary (balance sensors and per-currency sensors) and that is
\* attached to the host is removed from the host in that cycle.
C22_DeletedIsRemovedFromHost ==
    [][last_run'.outcome = "completed" =>
          \A uid \in DeletedFromTracking :
              (\/ (uid \in DOMAIN active_balance_sensors
                      /\ active_balance_sensors[uid].hass)
               \/ (uid \in DOMAIN active_currency_net_worth_sensors
                      /\ active_currency_net_worth_sensors[uid].hass))
              => uid \in last_run'.host_removed]_vars

\* ------------------------------------------------------------- C23

\* C23: with two entries set up, a run of the listener of one entry
\* neither removes nor writes a tracked entity of the other entry, and the
\* entities it creates are added through the add-entities callback of its
\* own entry.
C23_EntriesDoNotInterfere ==
    last_run.outcome /= "none" =>
        /\ \A uid \in last_run.removed \cup last_run.written :
              uid[1] = last_run.entry_id
        /\ last_run.added /= {} => last_run.callback = last_run.entry_id

\* ------------------------------------------------------------- C24

\* The step sets the entry up and the listener completes its first run.
SetupCompletes ==
    /\ entry_state = "not_loaded"
    /\ entry_state' = "loaded"
    /\ last_run'.outcome = "completed"

\* C24: the first reconciliation of a setup, also of a setup that follows
\* an unload, creates and hands to the host a balance entity for every
\* record with a non-zero balance and a per-currency entity for every
\* currency of the fetched records.
C24_SetupCreatesEveryEntity ==
    [][SetupCompletes =>
          /\ \A k \in CompositeKeys :
                NonZero(data', k) =>
                    \E uid \in last_run'.added :
                        /\ uid \in DOMAIN active_balance_sensors'
                        /\ KeyOf(active_balance_sensors', uid) = k
                        /\ active_balance_sensors'[uid].hass
          /\ \A c \in CurrenciesOf(data', CompositeKeys) :
                \E uid \in DOMAIN active_currency_net_worth_sensors' :
                    /\ uid = CurrencyUniqueId(c)
                    /\ active_currency_net_worth_sensors'[uid].hass]_vars

\* ------------------------------------------------------------- C25

\* The API call of a validation that succeeds.
ApiReturns == [raises |-> "none", status |-> NoNumber]

\* C25: a step of the user flow that submits an API key which validates
\* and is already configured ends in an abort with the reason
\* already_configured, creates no entry and does not show the form.
C25_ConfiguredKeyAborts ==
    [][\A user_input \in UserInputs :
          (/\ user_input.api_key \in UniqueIdsOf(config_entries)
           /\ StepUserSubmitsWith(user_input, ApiReturns, "none"))
          => /\ flow_result' = Abort("already_configured")
             /\ config_entries' = config_entries]_vars

\* ------------------------------------------------------------- C26

\* The error the form shows when the validation fails on the API call
\* `api`.
ErrorOfValidation(api) ==
    IF api.raises = "HTTPError" /\ api.status = Some(401)
    THEN "invalid_auth"
    ELSE "cannot_connect"

\* C26: a submission of the user step creates an entry only if the
\* validation of the API key succeeded; when it failed, no entry is created
\* and the form is shown again with exactly one error, invalid_auth for an
\* HTTP error with status 401 and cannot_connect for any other failure; the
\* error unknown is shown only when the validation had succeeded.
C26_ErrorsOfTheUserStep ==
    [][\A user_input \in UserInputs, api \in ApiOutcomes, host \in HostOutcomes :
          StepUserSubmitsWith(user_input, api, host) =>
              /\ config_entries' /= config_entries => api.raises = "none"
              /\ flow_result'.type = "create_entry" => api.raises = "none"
              /\ api.raises /= "none" =>
                    /\ config_entries' = config_entries
                    /\ flow_result'.type = "form"
                    /\ Cardinality(flow_result'.errors) = 1
                    /\ flow_result'.errors = {<<"base", ErrorOfValidation(api)>>}
              /\ <<"base", "unknown">> \in flow_result'.errors =>
                    api.raises = "none"]_vars

\* The form is shown with the error invalid_auth next to an entry that an
\* earlier submission has created.
C26_Witness ==
    /\ flow_result = ShowForm({<<"base", "invalid_auth">>})
    /\ config_entries /= <<>>

\* ------------------------------------------------------------- C27

\* The unique ids tracked in one of the two dictionaries before the step,
\* and after it.
TrackedBefore ==
    DOMAIN active_balance_sensors \cup DOMAIN active_currency_net_worth_sensors

TrackedAfter ==
    DOMAIN active_balance_sensors'
        \cup DOMAIN active_currency_net_worth_sensors'

\* C27: in a cycle it completes, the listener writes the state only of the
\* entities that were tracked before the cycle and remain tracked; it does
\* not write an entity it has created in that cycle.
C27_WritesOnlyExistingEntities ==
    [][last_run'.outcome = "completed" =>
          /\ last_run'.written \subseteq (TrackedBefore \cap TrackedAfter)
          /\ last_run'.written \cap last_run'.created = {}]_vars

\* ------------------------------------------------------------- C28

\* Two values of a tracking dictionary hold the same objects under the same
\* keys, with the same attachment to the host.
SameTracking(a, b) ==
    /\ DOMAIN a = DOMAIN b
    /\ \A uid \in DOMAIN a : a[uid].hass = b[uid].hass

\* C28: a run of the listener while the coordinator data is None or has
\* neither the key manual_assets nor the key plaid_accounts returns
\* without effect: both tracking dictionaries are unchanged, no entity is
\* created or added, none is removed and no state is written.
C28_MissingDataHasNoEffect ==
    [][(/\ last_run'.outcome /= "none"
        /\ data'.is_none \/ ~data'.has_lists)
       => /\ SameTracking(active_balance_sensors, active_balance_sensors')
          /\ SameTracking(active_currency_net_worth_sensors,
                          active_currency_net_worth_sensors')
          /\ last_run'.outcome = "returned"
          /\ last_run'.created = {}
          /\ last_run'.added = {}
          /\ last_run'.removed = {}
          /\ last_run'.host_removed = {}
          /\ last_run'.written = {}]_vars

\* The listener has returned early on a dict without the two lists while a
\* balance sensor and a per-currency sensor were tracked.
C28_Witness ==
    /\ ~data.is_none
    /\ ~data.has_lists
    /\ last_run.outcome = "returned"
    /\ active_balance_sensors /= <<>>
    /\ active_currency_net_worth_sensors /= <<>>

====
